---- MODULE Spec2Model ----
(***************************************************************************)
(* A model of mbed-edge-js: the edge RPC client (EdgeRpcClient, the        *)
(* Transport) and the device session (MbedDevice).                         *)
(*                                                                         *)
(* The socket carries a stream of 32-bit big-endian words.  A data event   *)
(* hands the listeners a run of whole words of that stream (a cut inside a *)
(* word would make readUInt32BE read past the buffer).  data.length is     *)
(* four times the number of words.                                         *)
(***************************************************************************)
EXTENDS Integers, Sequences, FiniteSets, TLC

\* ---------------------------------------------------------------- bounds
MaxCalls == 3        \* sendJsonRpc calls issued on one connection
MaxSends == 2        \* control frames the peer sends
MaxProcs == 2        \* FOTA operations (5/0/0 runs, setFota* calls) under way at once
MaxManifests == 2    \* different manifests the manifest service returns
MaxEntries == 2      \* entries of a resource model (lwm2m)
MaxRegisters == 2    \* channels one session opens, one per register()
MaxQueue == 2        \* items of one list get_update_queue resolves to
MaxContent == 2      \* bytes of the content of a control command

\* ------------------------------------------------------- program constants
FSTRM_CONTROL_ACCEPT == 1
FSTRM_CONTROL_START == 2
FSTRM_CONTROL_STOP == 3
FSTRM_CONTROL_READY == 4
FSTRM_CONTROL_FINISH == 5

\* ------------------------------------------------------------ JSON values
\* JSON values a response can carry, as one word each.
JNone == 0           \* no value (undefined)
JZero == 1           \* the number 0; false, "" and null are falsy alike
JObj == 2            \* a truthy value: a list, an object, "ok"
JsonVals == {JZero, JObj}
\* JavaScript truthiness, as `if (json.result)` tests it
Truthy(v) == v \notin {JNone, JZero}

\* A response object {jsonrpc:"2.0", id, result|error} is two words: the
\* head with the jsonrpc member and the id, and the result or error member
\* with its value.  The kinds of word are told apart by their values, as the
\* text of one JSON member is told apart from another's and from a binary
\* length.
HasResult == 1
HasError == 2
HasNeither == 3
JsonRpc20 == 10      \* the jsonrpc member "2.0"
PayloadWords == 2
HeadWord(ver, id) == ver + id
HeadId(w) == w - JsonRpc20
Member(tag, v) == 2 * JsonRpc20 + 4 * tag + v
MemberTag(w) == (w - 2 * JsonRpc20) \div 4
MemberVal(w) == (w - 2 * JsonRpc20) % 4
MemberWords == {Member(t, v) : t \in {HasResult, HasError, HasNeither},
                               v \in {JNone, JZero, JObj}}
HeadWords == {HeadWord(JsonRpc20, id) : id \in 0..MaxCalls}

\* JSON.stringify of a response, then the 4-byte length in front
JsonFrame(id, tag, v) == <<4 * PayloadWords, HeadWord(JsonRpc20, id), Member(tag, v)>>
\* A control frame: zero marker, length of opcode+content, opcode, content
ControlFrame(op, content) == <<0, 4 * (1 + Len(content)), op>> \o content

\* JSON.parse(data.slice(4)): throws unless the bytes are one whole object
JsonParse(p) ==
    IF Len(p) = PayloadWords /\ p[1] \in HeadWords /\ p[2] \in MemberWords
    THEN [ok |-> TRUE, jsonrpc |-> JsonRpc20, id |-> HeadId(p[1]),
          tag |-> MemberTag(p[2]), val |-> MemberVal(p[2])]
    ELSE [ok |-> FALSE, jsonrpc |-> 0, id |-> 0, tag |-> 0, val |-> 0]

ByteLength(d) == 4 * Len(d)

VARIABLES
    \* ---- EdgeRpcClient
    client,       \* this.client and its socket: none/connecting/connected/closed/destroyed
    is_open,      \* this._is_open
    rpcId,        \* this._rpcId
    bytes_left,   \* this._bytes_left
    buffer,       \* this._buffer (<<>> for null)
    listeners,    \* the socket's 'data' listeners, in the order they were added
    calls,        \* the promise and timer of every sendJsonRpc call, by id
    ctl,          \* the promise and timer of the sendControlCommand awaited
    initPc,       \* where init() is
    deinitPc,     \* where deinit() is
    wire,         \* words the peer sent that no data event delivered yet
    answers,      \* by id, for each request the peer has answered: "late" when the
                  \* call was settled already, else "ok" for a truthy result and
                  \* "not ok" for any other answer
    sends,        \* control frames the peer sent
    \* ---- MbedDevice
    rpcClient,    \* whether this.rpcClient is set
    channel,      \* the RPC channel register() made: what was done with it
    endpoint,     \* this.endpoint ("" or the name the cloud registered)
    reg,          \* where register() is, and its supportsUpdate argument
    created,      \* how many creates of registerUpdateResources have succeeded
    fwState,      \* the value of resource 5/0/3: the last value pushed with success
    fwResult,     \* the value of resource 5/0/5
    fwName,       \* the value of resource 5/0/6
    fwVersion,    \* the value of resource 5/0/7
    manifest,     \* this.manifest
    procs,        \* the runs of the 5/0/0 handler and the setFota* calls under way
    scenario,     \* history: what the operations that ended one after another were
    fotaManifest, \* history: the manifest whose firmware the last fota event carried
    resources,    \* this.resources: by path, the entry of the resource model
    creates,      \* the creates register() issued for the resource model
    subs,         \* the session's listeners on edgeRpc's 'resource-executed'
    dereg,        \* where deregister() is, and what it has called
    setv,         \* the setValue(path, value) call under way or last made
    emitted,      \* the last edgeRpc event handled and the local notifications
                  \* (put, post) its listeners emitted
    \* ---- EdgeRpcClient: the poll and the control frames as functions
    poll,         \* a list get_update_queue resolved to and the events emitted for it
    codec         \* a control command, the bytes written for it and their decoding

tvars == <<client, is_open, rpcId, bytes_left, buffer, listeners, calls, ctl,
           initPc, deinitPc, wire, answers, sends>>

dvars == <<rpcClient, channel, endpoint, reg, created, fwState, fwResult, fwName,
           fwVersion, manifest, procs, scenario, fotaManifest>>

svars == <<resources, creates, subs, dereg, setv, emitted>>

\* The variables of the session and of the poll that the connection and the
\* FOTA operations leave alone
qvars == <<poll, codec>>

xvars == <<svars, qvars>>

vars == <<tvars, dvars, xvars>>

\* since: the value of _rpcId when the command was sent
NoCtl == [st |-> "none", timer |-> FALSE, val |-> <<>>, err |-> "", owner |-> "",
          since |-> 0]
NewCtl(owner) == [NoCtl EXCEPT !.st = "pending", !.timer = TRUE, !.owner = owner,
                               !.since = rpcId]

\* new EdgeRpcClient(...)
\* No list polled, no control command written
NoPoll == [q |-> <<>>, done |-> FALSE, events |-> <<>>]
NoCodec == [op |-> 0, content |-> <<>>, written |-> <<>>, st |-> "idle",
            type |-> 0, data |-> <<>>]

EdgeRpcClient ==
    /\ client = "none"
    /\ is_open = FALSE
    /\ rpcId = 0
    /\ bytes_left = 0
    /\ buffer = <<>>
    /\ listeners = <<>>
    /\ calls = <<>>
    /\ ctl = NoCtl
    /\ initPc = "idle"
    /\ deinitPc = "idle"
    /\ wire = <<>>
    /\ answers = <<>>
    /\ sends = 0

\* ------------------------------------------------------------ MbedDevice
ARM_UC_MONITOR_STATE_NONE == 0
ARM_UC_MONITOR_STATE_DOWNLOADING == 1
ARM_UC_MONITOR_STATE_DOWNLOADED == 2
ARM_UC_MONITOR_STATE_UPDATING == 3

ARM_UC_MONITOR_RESULT_NONE == 0
ARM_UC_MONITOR_RESULT_SUCCESS == 1
ARM_UC_MONITOR_RESULT_ERROR_URI == 7
ARM_UC_MONITOR_RESULT_ERROR_UPDATE == 8

\* A string is the sequence of its characters; '' is <<>>.
\* Number.prototype.toString(): the decimal digits
RECURSIVE toString(_)
toString(n) == IF n < 10 THEN <<n>> ELSE toString(n \div 10) \o <<n % 10>>

\* What parseAndVerifyManifest can return: payload.reference.hash, timestamp
Manifests == {[hash |-> <<16 + i>>, timestamp |-> 10 * i + 9] : i \in 1..MaxManifests}
\* this.manifest before any manifest was verified (undefined)
NoManifest == [hash |-> <<>>, timestamp |-> 0]

\* The creates of registerUpdateResources, in the order they are awaited
UpdateResources == <<"5/0/1", "5/0/2", "10255/0/0", "5/0/3", "5/0/5", "5/0/6",
                     "5/0/7", "5/0/0">>
\* this.fwState, this.fwResult, ... is set once its create has resolved
HasHandle(path) ==
    \E k \in 1..created : UpdateResources[k] = path

\* No operation in this slot
IdleProc == [kind |-> "none", pc |-> "idle", manifest |-> NoManifest,
             arg |-> <<>>, tried |-> {}, clean |-> TRUE, fota |-> 0]
NoScenario == [stage |-> "none", manifest |-> NoManifest]

\* ---- the resource model
\* A route is objectId/instanceId/resourceId; the path of a resource is the
\* route after a slash.  Entry k of a resource model has route k.
Route(k) == <<k>>
Path(route) == <<"/">> \o route
\* l.path.replace(/^\//, '')
Unslash(path) == IF path[1] = "/" THEN Tail(path) ELSE path

\* The value of a resource: a string, or a number given in tenths (the models
\* have no value that is neither, for which isNaN holds)
Values == {[kind |-> "string", x |-> 0], [kind |-> "number", x |-> 10],
           [kind |-> "number", x |-> 15]}
\* An entry of a resource model: whether its operation includes POST, its value
Entries == {[post |-> TRUE, value |-> [kind |-> "string", x |-> 0], rpcType |-> ""]}
             \cup {[post |-> FALSE, value |-> v, rpcType |-> ""] : v \in Values}
\* The resource models: lists of up to MaxEntries entries
Models == UNION {[1..n -> Entries] : n \in 0..MaxEntries}

\* The type of the create: String for a string or NaN, Int for a whole
\* number (l.value % 1 === 0), else Float
rpcTypeOf(value) ==
    IF value.kind = "string" \/ value.kind = "NaN" THEN "String"
    ELSE IF value.x % 10 = 0 THEN "Int"
    ELSE "Float"

\* $setResources(resources): the object with the entries by their path
setResources(lwm2m) ==
    [p \in {Path(Route(k)) : k \in 1..Len(lwm2m)} |->
        lwm2m[CHOOSE k \in 1..Len(lwm2m) : Path(Route(k)) = p]]

\* The create register() issues for an entry: createFunction for POST, else
\* createResource<type> with the entry's value
NewCreate(l, path) ==
    [kind |-> IF l.post THEN "function" ELSE rpcTypeOf(l.value),
     path |-> Unslash(path), st |-> "pending"]

NoChannel == [opened |-> FALSE, unregistered |-> FALSE, terminated |-> FALSE,
              registers |-> 0, returned |-> ""]
\* The names the cloud gives an endpoint
Endpoints == {"endpoint-a", "endpoint-b"}

\* new MbedDevice(id, clientType, edgeRpc); no channel was made yet
MbedDevice ==
    /\ rpcClient = FALSE
    /\ channel = NoChannel
    /\ endpoint = ""
    /\ reg = [pc |-> "idle", supportsUpdate |-> FALSE, n |-> 0, result |-> ""]
    /\ created = 0
    /\ fwState = ARM_UC_MONITOR_STATE_NONE
    /\ fwResult = ARM_UC_MONITOR_RESULT_NONE
    /\ fwName = <<>>
    /\ fwVersion = <<>>
    /\ manifest = NoManifest
    /\ procs = [i \in 1..MaxProcs |-> IdleProc]
    /\ scenario = NoScenario
    /\ fotaManifest = NoManifest
    /\ resources = setResources(<<>>)
    /\ creates = <<>>
    /\ subs = 0
    /\ dereg = [pc |-> "idle", wasOpen |-> FALSE, unregisters |-> 0, terminates |-> 0]
    /\ setv = [pc |-> "idle", path |-> <<>>, value |-> [kind |-> "string", x |-> 0],
               pushed |-> FALSE, err |-> ""]
    /\ emitted = [ev |-> "none", mine |-> FALSE, route |-> <<>>, notes |-> <<>>]

Init == EdgeRpcClient /\ MbedDevice /\ poll = NoPoll /\ codec = NoCodec

\* ------------------------------------------------------------- promises
NewCall(src) == [src |-> src, id |-> 0, st |-> "pending", val |-> 0, err |-> "",
                 timer |-> TRUE, n |-> 0]

\* res(v) and rej(e) of a promise: each invocation is counted in n, and only
\* the first one settles the promise
Resolve(c, v) ==
    [c EXCEPT !.st = IF c.st = "pending" THEN "resolved" ELSE @,
              !.val = IF c.st = "pending" THEN v ELSE @,
              !.n = @ + 1]
Reject(c, e, v) ==
    [c EXCEPT !.st = IF c.st = "pending" THEN "rejected" ELSE @,
              !.err = IF c.st = "pending" THEN e ELSE @,
              !.val = IF c.st = "pending" THEN v ELSE @,
              !.n = @ + 1]

CtlResolve(c, v) ==
    [c EXCEPT !.st = IF c.st = "pending" THEN "resolved" ELSE @,
              !.val = IF c.st = "pending" THEN v ELSE @]
CtlReject(c, e) ==
    [c EXCEPT !.st = IF c.st = "pending" THEN "rejected" ELSE @,
              !.err = IF c.st = "pending" THEN e ELSE @]

RpcListener(id) == [kind |-> "rpc", id |-> id]
CtlListener == [kind |-> "ctl", id |-> 0]
RemoveListener(ls, l) == SelectSeq(ls, LAMBDA x : x # l)

\* ------------------------------------------------- sendJsonRpc's onData
\* What a listener works on: st = [bl, buf, calls, ctl, ls], the fields
\* _bytes_left and _buffer, the promises, and the socket's listener list.

\* A response object that carries this call's id: settle the call
onDataSettle(st, id, json) ==
    LET c == [st.calls[id] EXCEPT !.timer = FALSE]
    IN [st EXCEPT
          !.ls = RemoveListener(@, RpcListener(id)),
          !.calls[id] =
              IF json.tag = HasResult /\ Truthy(json.val)
              THEN Resolve(c, json.val)
              ELSE IF json.tag = HasError /\ Truthy(json.val)
              THEN Reject(c, "RemoteError", json.val)
              ELSE Reject(c, "NoResultOrError", 0)]

\* onData from `let length = data.readUInt32BE(0, 4)` on
onDataFrame(st, id, data) ==
    LET length == data[1]
    IN IF length = 0 THEN st
       ELSE IF ByteLength(data) - 4 # length
       THEN IF length - ByteLength(data) + 4 < 0 THEN st
            ELSE [st EXCEPT !.buf = data,
                            !.bl = length - ByteLength(data) + 4]
       ELSE LET json == JsonParse(Tail(data))
            IN IF json.ok /\ json.jsonrpc = JsonRpc20 /\ json.id = id
               THEN onDataSettle(st, id, json)
               ELSE st

\* onData of the call with this id, on one data event
onData(st, id, data) ==
    IF st.bl > 0
    THEN IF st.bl = ByteLength(data)
         THEN onDataFrame([st EXCEPT !.buf = <<>>, !.bl = 0], id, st.buf \o data)
         ELSE IF st.bl - ByteLength(data) > 0
         THEN [st EXCEPT !.buf = @ \o data, !.bl = @ - ByteLength(data)]
         ELSE [st EXCEPT !.buf = <<>>, !.bl = 0]
    ELSE onDataFrame(st, id, data)

\* ------------------------------------- sendControlCommand's once('data')
onControlData(st, data) ==
    LET s0 == [st EXCEPT !.ctl.timer = FALSE,
                         !.ls = RemoveListener(@, CtlListener)]
    IN IF ByteLength(data) < 8
       THEN [s0 EXCEPT !.ctl = CtlReject(@, "Expected at least 8 bytes")]
       ELSE IF data[1] # 0 THEN s0
       ELSE IF ByteLength(data) - 8 # data[2]
       THEN [s0 EXCEPT !.ctl = CtlReject(@, "Length mismatch")]
       ELSE [s0 EXCEPT !.ctl = CtlResolve(@, SubSeq(data, 3, Len(data)))]

\* socket.emit('data', data): every listener registered when the event is
\* emitted is called, in the order of registration
RECURSIVE emitData(_, _, _)
emitData(ls, st, data) ==
    IF ls = <<>> THEN st
    ELSE LET l == Head(ls)
             s2 == IF l.kind = "rpc" THEN onData(st, l.id, data)
                   ELSE onControlData(st, data)
         IN emitData(Tail(ls), s2, data)

\* ------------------------------------------------- awaits of init, deinit
InitCall == CHOOSE i \in 1..rpcId : calls[i].src = "init"

\* What init() does when the promise it awaits has settled (c2, k2: the
\* promises after the event): the ACCEPT check and START, or _is_open = true
initNext(c2, k2) ==
    CASE initPc = "await_accept" /\ k2.st = "resolved" ->
            IF Len(k2.val) > 0 /\ k2.val[1] = FSTRM_CONTROL_ACCEPT
            THEN "grace" ELSE "failed"
      [] initPc = "await_accept" /\ k2.st = "rejected" -> "failed"
      [] initPc = "await_register" /\ c2[InitCall].st = "resolved" -> "done"
      [] initPc = "await_register" /\ c2[InitCall].st = "rejected" -> "failed"
      [] OTHER -> initPc

\* What deinit() does when the STOP response promise has settled
deinitNext(k2) ==
    CASE deinitPc = "await_finish" /\ k2.st = "resolved" ->
            IF Len(k2.val) > 0 /\ k2.val[1] = FSTRM_CONTROL_FINISH
            THEN "done" ELSE "failed"
      [] deinitPc = "await_finish" /\ k2.st = "rejected" -> "failed"
      [] OTHER -> deinitPc

\* The continuations that run once an event handler or a timer has returned
Continue(c2, k2) ==
    /\ initPc' = initNext(c2, k2)
    /\ deinitPc' = deinitNext(k2)
    /\ is_open' = IF initPc = "await_register" /\ initNext(c2, k2) = "done"
                  THEN TRUE ELSE is_open
    /\ client' = IF deinitPc = "await_finish" /\ deinitNext(k2) = "done"
                 THEN "destroyed" ELSE client

\* ---------------------------------------------------------------- actions
\* init(): new net.Socket(), the 'error' and 'close' handlers, connect
InitStart ==
    /\ initPc = "idle"
    /\ initPc' = "connecting"
    /\ client' = "connecting"
    /\ UNCHANGED <<is_open, rpcId, bytes_left, buffer, listeners, calls, ctl,
                   deinitPc, wire, answers, sends>>
    /\ UNCHANGED <<dvars, xvars>>

\* The connect succeeded: init sends READY and awaits one response
ConnectOk ==
    /\ initPc = "connecting"
    /\ client' = "connected"
    /\ ctl' = NewCtl("init")
    /\ listeners' = Append(listeners, CtlListener)
    /\ initPc' = "await_accept"
    /\ UNCHANGED <<is_open, rpcId, bytes_left, buffer, calls, deinitPc, wire, answers, sends>>
    /\ UNCHANGED <<dvars, xvars>>

\* The connect failed: the socket's 'error' and 'close', and init throws
ConnectFail ==
    /\ initPc = "connecting"
    /\ client' = "closed"
    /\ is_open' = FALSE
    /\ initPc' = "failed"
    /\ UNCHANGED <<rpcId, bytes_left, buffer, listeners, calls, ctl, deinitPc,
                   wire, answers, sends>>
    /\ UNCHANGED <<dvars, xvars>>

\* sendJsonRpc reading this._rpcId without storing the id it takes
sendJsonRpcReusingId(src) ==
    /\ Len(calls) < MaxCalls
    /\ rpcId' = rpcId
    /\ LET id == rpcId + 1
       IN IF client \in {"none", "destroyed"}
          THEN /\ calls' = Append(calls, Reject([NewCall(src) EXCEPT !.id = id,
                                                                     !.timer = FALSE],
                                                "TypeError", 0))
               /\ UNCHANGED listeners
          ELSE /\ calls' = Append(calls, [NewCall(src) EXCEPT !.id = id])
               /\ listeners' = Append(listeners, RpcListener(id))

\* sendJsonRpc(method, params): the id, the write, the timer, the listener.
\* With no socket (this.client undefined or null) client.write throws.
sendJsonRpc(src) ==
    /\ rpcId < MaxCalls
    /\ rpcId' = rpcId + 1
    /\ LET id == rpcId + 1
       IN IF client \in {"none", "destroyed"}
          THEN /\ calls' = Append(calls, Reject([NewCall(src) EXCEPT !.id = id,
                                                                     !.timer = FALSE],
                                                "TypeError", 0))
               /\ UNCHANGED listeners
          ELSE /\ calls' = Append(calls, [NewCall(src) EXCEPT !.id = id])
               /\ listeners' = Append(listeners, RpcListener(id))

\* A call of the application (a device's RPC channel)
AppCall ==
    /\ sendJsonRpc("app")
    /\ UNCHANGED <<client, is_open, bytes_left, buffer, ctl, initPc, deinitPc,
                   wire, answers, sends>>
    /\ UNCHANGED <<dvars, xvars>>

\* _getQueue calling get_update_queue whether or not is_open()
PollTickAlways ==
    /\ sendJsonRpc("poll")
    /\ UNCHANGED <<client, is_open, bytes_left, buffer, ctl, initPc, deinitPc,
                   wire, answers, sends>>
    /\ UNCHANGED <<dvars, xvars>>

\* _getQueue on a tick of the 200 ms interval: nothing unless is_open()
PollTick ==
    /\ is_open
    /\ sendJsonRpc("poll")
    /\ UNCHANGED <<client, is_open, bytes_left, buffer, ctl, initPc, deinitPc,
                   wire, answers, sends>>
    /\ UNCHANGED <<dvars, xvars>>

\* init after wait(200): protocol_translator_register
GraceElapsed ==
    /\ initPc = "grace"
    /\ sendJsonRpc("init")
    /\ initPc' = "await_register"
    /\ UNCHANGED <<client, is_open, bytes_left, buffer, ctl, deinitPc, wire, answers, sends>>
    /\ UNCHANGED <<dvars, xvars>>

\* All the timers run 10 s: they fire in the order they were set
EarlierTimer(id) ==
    \/ \E j \in 1..(id - 1) : calls[j].timer
    \/ ctl.timer /\ ctl.since < id

\* Timeout without `client.removeListener('data', onData)`
TimeoutKeepsListener(id) ==
    /\ id \in 1..rpcId
    /\ calls[id].timer
    /\ ~EarlierTimer(id)
    /\ LET c2 == [calls EXCEPT ![id] = Reject([@ EXCEPT !.timer = FALSE], "Timeout", 0)]
       IN /\ calls' = c2
          /\ Continue(c2, ctl)
    /\ UNCHANGED <<rpcId, bytes_left, buffer, listeners, ctl, wire, answers, sends>>
    /\ UNCHANGED <<dvars, xvars>>

\* The 10 s timer of a sendJsonRpc call
Timeout(id) ==
    /\ id \in 1..rpcId
    /\ calls[id].timer
    /\ ~EarlierTimer(id)
    /\ LET c2 == [calls EXCEPT ![id] = Reject([@ EXCEPT !.timer = FALSE], "Timeout", 0)]
       IN /\ calls' = c2
          /\ Continue(c2, ctl)
    /\ listeners' = RemoveListener(listeners, RpcListener(id))
    /\ UNCHANGED <<rpcId, bytes_left, buffer, ctl, wire, answers, sends>>
    /\ UNCHANGED <<dvars, xvars>>

\* The 10 s timer of sendControlCommand: the once('data') listener stays
ControlTimeout ==
    /\ ctl.timer
    /\ ~\E j \in 1..ctl.since : calls[j].timer
    /\ LET k2 == CtlReject([ctl EXCEPT !.timer = FALSE], "Timeout")
       IN /\ ctl' = k2
          /\ Continue(calls, k2)
    /\ UNCHANGED <<rpcId, bytes_left, buffer, listeners, calls, wire, answers, sends>>
    /\ UNCHANGED <<dvars, xvars>>

\* The peer answers a request it has not answered yet
PeerSendJson(id, tag, v) ==
    /\ client = "connected"
    /\ id \in (1..rpcId) \ DOMAIN answers
    /\ wire' = wire \o JsonFrame(id, tag, v)
    /\ answers' = [i \in DOMAIN answers \cup {id} |->
                      IF i = id
                      THEN IF calls[id].st # "pending" THEN "late"
                           ELSE IF tag = HasResult /\ Truthy(v) THEN "ok"
                           ELSE "not ok"
                      ELSE answers[i]]
    /\ UNCHANGED <<client, is_open, rpcId, bytes_left, buffer, listeners, calls,
                   ctl, initPc, deinitPc, sends>>
    /\ UNCHANGED <<dvars, xvars>>

\* The peer writes a control frame
PeerSendControl(op, content) ==
    /\ client = "connected"
    /\ sends < MaxSends
    /\ wire' = wire \o ControlFrame(op, content)
    /\ sends' = sends + 1
    /\ UNCHANGED <<client, is_open, rpcId, bytes_left, buffer, listeners, calls,
                   ctl, initPc, deinitPc, answers>>
    /\ UNCHANGED <<dvars, xvars>>

\* The peer writes a JSON frame no call asked for (a request of its own)
PeerSendData ==
    /\ client = "connected"
    /\ sends < MaxSends
    /\ wire' = wire \o JsonFrame(0, HasNeither, JNone)
    /\ sends' = sends + 1
    /\ UNCHANGED <<client, is_open, rpcId, bytes_left, buffer, listeners, calls,
                   ctl, initPc, deinitPc, answers>>
    /\ UNCHANGED <<dvars, xvars>>

\* The socket's 'data' event with the next n words of the stream
DataEvent(n) ==
    /\ client = "connected"
    /\ n \in 1..Len(wire)
    /\ LET data == SubSeq(wire, 1, n)
           st == emitData(listeners,
                          [bl |-> bytes_left, buf |-> buffer, calls |-> calls,
                           ctl |-> ctl, ls |-> listeners],
                          data)
       IN /\ bytes_left' = st.bl
          /\ buffer' = st.buf
          /\ calls' = st.calls
          /\ ctl' = st.ctl
          /\ listeners' = st.ls
          /\ Continue(st.calls, st.ctl)
    /\ wire' = SubSeq(wire, n + 1, Len(wire))
    /\ UNCHANGED <<rpcId, answers, sends>>
    /\ UNCHANGED <<dvars, xvars>>

\* The socket's 'close' event: the connection dropped, or destroy() was called
SocketClose ==
    /\ \/ client = "connected" /\ client' = "closed"
       \/ client = "destroyed" /\ is_open /\ client' = client
    /\ is_open' = FALSE
    /\ wire' = <<>>
    /\ UNCHANGED <<rpcId, bytes_left, buffer, listeners, calls, ctl, initPc,
                   deinitPc, answers, sends>>
    /\ UNCHANGED <<dvars, xvars>>

\* deinit(): true at once unless open, else STOP and await one response
DeinitStart ==
    /\ deinitPc = "idle"
    /\ IF ~is_open
       THEN /\ deinitPc' = "returned"
            /\ UNCHANGED <<ctl, listeners>>
       ELSE /\ deinitPc' = "await_finish"
            /\ ctl' = NewCtl("deinit")
            /\ listeners' = Append(listeners, CtlListener)
    /\ UNCHANGED <<client, is_open, rpcId, bytes_left, buffer, calls, initPc,
                   wire, answers, sends>>
    /\ UNCHANGED <<dvars, xvars>>

CtlContents == {<<>>, <<1>>}
\* The most words the peer's frames can leave in flight
FrameWords == 1 + PayloadWords
MaxWire == MaxCalls * FrameWords + MaxSends * 4
\* The responses a peer gives: a result of any value, an error object, neither
PeerAnswers == {<<HasResult, v>> : v \in JsonVals}
                 \cup {<<HasError, JObj>>, <<HasNeither, JNone>>}

\* The connection's life: init, the handshake, the socket's events, deinit
Next ==
    \/ InitStart
    \/ ConnectOk
    \/ ConnectFail
    \/ GraceElapsed
    \/ \E id \in 1..MaxCalls : Timeout(id)
    \/ ControlTimeout
    \/ \E id \in 1..MaxCalls, a \in PeerAnswers : PeerSendJson(id, a[1], a[2])
    \/ \E op \in {FSTRM_CONTROL_ACCEPT, FSTRM_CONTROL_FINISH}, c \in CtlContents :
          PeerSendControl(op, c)
    \/ PeerSendData
    \/ \E n \in 1..MaxWire : DataEvent(n)
    \/ SocketClose
    \/ DeinitStart

Spec == Init /\ [][Next]_vars

\* An open connection: init() has returned, protocol_translator_register
\* (call 1) was answered, no other call was made yet
InitOpen ==
    /\ client = "connected"
    /\ is_open = TRUE
    /\ rpcId = 1
    /\ bytes_left = 0
    /\ buffer = <<>>
    /\ listeners = <<>>
    /\ calls = <<[NewCall("init") EXCEPT !.id = 1, !.st = "resolved", !.val = JObj,
                                        !.timer = FALSE, !.n = 1]>>
    /\ ctl = [NoCtl EXCEPT !.st = "resolved", !.val = <<FSTRM_CONTROL_ACCEPT, 1>>,
                          !.owner = "init"]
    /\ initPc = "done"
    /\ deinitPc = "idle"
    /\ wire = <<>>
    /\ answers = <<"ok">>
    /\ sends = 0
    /\ poll = NoPoll
    /\ codec = NoCodec
    /\ MbedDevice

\* The calls on an open connection: the application's and the poll's
NextRpc ==
    \/ AppCall
    \/ \E id \in 1..MaxCalls : Timeout(id)
    \/ \E id \in 1..MaxCalls, a \in PeerAnswers : PeerSendJson(id, a[1], a[2])
    \/ \E n \in 1..MaxWire : DataEvent(n)
    \/ SocketClose

SpecRpc == InitOpen /\ [][NextRpc]_vars

\* The connection's life with the ticks of the poll
\* of the 200 ms interval, the peer answering with a result or an error and
\* every data event delivering all the peer has written
NextPoll ==
    \/ InitStart
    \/ ConnectOk
    \/ ConnectFail
    \/ GraceElapsed
    \/ PollTick
    \/ \E id \in 1..MaxCalls : Timeout(id)
    \/ ControlTimeout
    \/ \E id \in 1..MaxCalls, a \in {<<HasResult, JObj>>, <<HasError, JObj>>} :
          PeerSendJson(id, a[1], a[2])
    \/ \E op \in {FSTRM_CONTROL_ACCEPT, FSTRM_CONTROL_FINISH} :
          PeerSendControl(op, <<>>)
    \/ wire # <<>> /\ DataEvent(Len(wire))
    \/ SocketClose
    \/ DeinitStart

SpecPoll == Init /\ [][NextPoll]_vars

\* The calls of the poll and of the application on an open connection, the
\* peer answering with a result or an error and every data event delivering
\* all the peer has written
NextCalls ==
    \/ AppCall
    \/ PollTick
    \/ \E id \in 1..MaxCalls : Timeout(id)
    \/ \E id \in 1..MaxCalls, a \in {<<HasResult, JObj>>, <<HasError, JObj>>} :
          PeerSendJson(id, a[1], a[2])
    \/ wire # <<>> /\ DataEvent(Len(wire))
    \/ SocketClose

SpecCalls == InitOpen /\ [][NextCalls]_vars

\* ------------------------------------------------ EdgeRpcClient: the poll
\* Base64 text is a sequence of the values 0..63 of its characters; Pad is '='
Pad == 64

\* The base64 text of the bytes b (what the gateway puts in item.value)
RECURSIVE Base64(_)
Base64(b) ==
    IF Len(b) = 0 THEN <<>>
    ELSE IF Len(b) = 1 THEN <<b[1] \div 4, (b[1] % 4) * 16, Pad, Pad>>
    ELSE IF Len(b) = 2
    THEN <<b[1] \div 4, (b[1] % 4) * 16 + b[2] \div 16, (b[2] % 16) * 4, Pad>>
    ELSE <<b[1] \div 4, (b[1] % 4) * 16 + b[2] \div 16,
           (b[2] % 16) * 4 + b[3] \div 64, b[3] % 64>>
         \o Base64(SubSeq(b, 4, Len(b)))

\* The bytes of the characters t, four characters giving three bytes
RECURSIVE Base64Bytes(_)
Base64Bytes(t) ==
    IF Len(t) < 2 THEN <<>>
    ELSE IF Len(t) = 2 THEN <<t[1] * 4 + t[2] \div 16>>
    ELSE IF Len(t) = 3
    THEN <<t[1] * 4 + t[2] \div 16, (t[2] % 16) * 16 + t[3] \div 4>>
    ELSE <<t[1] * 4 + t[2] \div 16, (t[2] % 16) * 16 + t[3] \div 4,
           (t[3] % 4) * 64 + t[4]>>
         \o Base64Bytes(SubSeq(t, 5, Len(t)))

\* new Buffer(value, 'base64'): the padding carries no bits
NewBuffer(value) == Base64Bytes(SelectSeq(value, LAMBDA c : c # Pad))

IsDigit(c) == c \in {"0", "1", "2", "3", "4", "5", "6", "7", "8", "9"}

\* id.split(/(\d\d)/) from position i on, piece being the text since the
\* last pair of digits: the text between the pairs and the pairs themselves
RECURSIVE Split(_, _, _)
Split(id, i, piece) ==
    IF i > Len(id) THEN <<piece>>
    ELSE IF i < Len(id) /\ IsDigit(id[i]) /\ IsDigit(id[i + 1])
    THEN <<piece, <<id[i], id[i + 1]>>>> \o Split(id, i + 2, <<>>)
    ELSE Split(id, i + 1, Append(piece, id[i]))

\* .filter(f => !!f)
Filter(pieces) == SelectSeq(pieces, LAMBDA f : f # <<>>)

\* .join(':')
RECURSIVE Join(_)
Join(pieces) ==
    IF Len(pieces) = 0 THEN <<>>
    ELSE IF Len(pieces) = 1 THEN pieces[1]
    ELSE pieces[1] \o <<":">> \o Join(Tail(pieces))

\* item['object-id'] + '/' + item['object-instance-id'] + '/' + item['resource-id']
RouteOf(item) ==
    <<item.object_id, "/", item.object_instance_id, "/", item.resource_id>>

\* The loop emitting an event for an item of any method
EmitAnyMethod(item) ==
    LET buff == NewBuffer(item.value)
        route == RouteOf(item)
        deviceId == Join(Filter(Split(item.device_id, 1, <<>>)))
        event == [type |-> "", deviceId |-> deviceId, route |-> route,
                  buff |-> buff]
    IN IF item.method = 1 THEN <<[event EXCEPT !.type = "resource-updated"]>>
       ELSE <<[event EXCEPT !.type = "resource-executed"]>>

\* One pass of the loop of _getQueue: the event emitted for item, if any
Emit(item) ==
    LET buff == NewBuffer(item.value)
        route == RouteOf(item)
        deviceId == Join(Filter(Split(item.device_id, 1, <<>>)))
        event == [type |-> "", deviceId |-> deviceId, route |-> route,
                  buff |-> buff]
    IN IF item.method = 1 THEN <<[event EXCEPT !.type = "resource-updated"]>>
       ELSE IF item.method = 2 THEN <<[event EXCEPT !.type = "resource-executed"]>>
       ELSE <<>>

\* for (let item of q)
RECURSIVE Loop(_)
Loop(q) == IF q = <<>> THEN <<>> ELSE Emit(Head(q)) \o Loop(Tail(q))

\* The items of the gateway's update queue
DeviceIds == {<<"0", "1">>, <<"0", "1", "2">>, <<"4", "5", "6", "7">>,
              <<"0", "1", "2", "3", "4", "5", "6", "7", "8", "9">>}
Buffers == {<<255>>, <<1, 2, 3, 4>>}
Items == [method : {1, 2, 3}, device_id : DeviceIds, object_id : {3},
          object_instance_id : {0}, resource_id : {0, 1},
          value : {Base64(b) : b \in Buffers}]
Queues == UNION {[1..n -> Items] : n \in 0..MaxQueue}

\* _getQueue after q = await this.sendJsonRpc('get_update_queue', {})
QueueSettled ==
    /\ ~poll.done
    /\ poll' = [poll EXCEPT !.done = TRUE, !.events = Loop(poll.q)]
    /\ UNCHANGED <<tvars, dvars, svars, codec>>

\* _getQueue as a function of the list the gateway answers with
InitQueue ==
    /\ EdgeRpcClient
    /\ MbedDevice
    /\ poll \in {[NoPoll EXCEPT !.q = q] : q \in Queues}
    /\ codec = NoCodec

NextQueue == QueueSettled

SpecQueue == InitQueue /\ [][NextQueue]_vars

\* ------------------------------------- EdgeRpcClient: control frame bytes
\* buf.writeUInt32BE(n): the four bytes of n, the most significant first
writeUInt32BE(n) ==
    <<(n \div 16777216) % 256, (n \div 65536) % 256, (n \div 256) % 256, n % 256>>

\* data.readUInt32BE(offset)
readUInt32BE(data, offset) ==
    data[offset + 1] * 16777216 + data[offset + 2] * 65536
        + data[offset + 3] * 256 + data[offset + 4]

\* data.slice(start)
slice(data, start) == SubSeq(data, start + 1, Len(data))

\* The buffer of a command: its opcode as a 32-bit word, then its content
CommandBuffer(op, content) == writeUInt32BE(op) \o content

\* _writeControlCommand writing the length of the content alone
writeControlCommandOfContent(buf) ==
    <<0, 0, 0, 0>> \o writeUInt32BE(Len(buf) - 4) \o buf

\* _writeControlCommand(buffer): the bytes written to the socket
writeControlCommand(buf) ==
    <<0, 0, 0, 0>> \o writeUInt32BE(Len(buf)) \o buf

\* sendControlCommand's once('data') on the bytes data: how the promise
\* settles, and with which bytes
onceData(data) ==
    IF Len(data) < 8 THEN [st |-> "rejected", data |-> <<>>]
    ELSE IF readUInt32BE(data, 0) # 0 THEN [st |-> "pending", data |-> <<>>]
    ELSE IF Len(data) - 8 # readUInt32BE(data, 4)
    THEN [st |-> "rejected", data |-> <<>>]
    ELSE [st |-> "resolved", data |-> slice(data, 8)]

Opcodes == {FSTRM_CONTROL_ACCEPT, FSTRM_CONTROL_START, FSTRM_CONTROL_STOP,
            FSTRM_CONTROL_READY, FSTRM_CONTROL_FINISH}
Bytes == {0, 1, 255}
Contents == UNION {[1..n -> Bytes] : n \in 0..MaxContent}

\* The command is written
WriteControl ==
    /\ codec.st = "idle"
    /\ codec.op \in Opcodes
    /\ codec' = [codec EXCEPT
                    !.written = writeControlCommand(CommandBuffer(codec.op,
                                                                  codec.content)),
                    !.st = "written"]
    /\ UNCHANGED <<tvars, dvars, svars, poll>>

\* The bytes written come in as one data event: the response is read as
\* init and deinit read it, its opcode with readUInt32BE(0)
ReadControl ==
    /\ codec.st = "written"
    /\ LET r == onceData(codec.written)
       IN codec' = IF r.st = "resolved"
                   THEN [codec EXCEPT !.st = "resolved",
                                      !.type = readUInt32BE(r.data, 0),
                                      !.data = slice(r.data, 4)]
                   ELSE [codec EXCEPT !.st = r.st]
    /\ UNCHANGED <<tvars, dvars, svars, poll>>

\* Writing and reading a control frame as functions of opcode and content
InitCodec ==
    /\ EdgeRpcClient
    /\ MbedDevice
    /\ poll = NoPoll
    /\ codec \in {[NoCodec EXCEPT !.op = op, !.content = c] :
                     op \in Opcodes, c \in Contents}

NextCodec == WriteControl \/ ReadControl

SpecCodec == InitCodec /\ [][NextCodec]_vars

\* ------------------------------------------------- MbedDevice: register
fvars == <<fwState, fwResult, fwName, fwVersion, manifest, procs, scenario,
           fotaManifest>>

\* The `rpc` that the catch block of register reads: the `let rpc` of the
\* function's first statement, which nothing assigns (the try block declares
\* another `rpc` for the channel it makes)
OuterRpc == "undefined"

\* catch (ex) of register: if (rpc && rpc.is_open) unregister (a failure is
\* logged) and terminate; delete this.rpcClient; throw
registerCatch ==
    /\ channel' = IF OuterRpc # "undefined" /\ channel.opened /\ ~channel.terminated
                  THEN [channel EXCEPT !.unregistered = TRUE, !.terminated = TRUE]
                  ELSE channel
    /\ rpcClient' = FALSE
    /\ reg' = [reg EXCEPT !.pc = "failed"]

\* What register awaits once its creates have resolved
AfterCreates == IF reg.supportsUpdate THEN "update" ELSE "register"
\* register going on to pc: at "register" it calls rpc.register()
Called(ch, pc) == IF pc = "register" THEN [ch EXCEPT !.registers = @ + 1] ELSE ch

\* register(lwm2m, supportsUpdate, ...): $setResources, new RPCClient, open()
register(lwm2m, supportsUpdate) ==
    /\ reg.pc \in {"idle", "done", "failed"}
    /\ subs < MaxRegisters
    /\ resources' = setResources(lwm2m)
    /\ rpcClient' = TRUE
    /\ channel' = NoChannel
    /\ reg' = [pc |-> "open", supportsUpdate |-> supportsUpdate, n |-> Len(lwm2m),
               result |-> ""]
    /\ creates' = <<>>
    /\ UNCHANGED <<endpoint, created, fvars, tvars, subs, dereg, setv, emitted>>
    /\ UNCHANGED qvars

\* await rpc.open() has settled: the 'resource-executed' listener, then one
\* create for every entry of the model, all awaited with Promise.all
OpenSettled(ok) ==
    /\ reg.pc = "open"
    /\ IF ok
       THEN /\ subs' = subs + 1
            /\ creates' = [k \in 1..reg.n |->
                              NewCreate(resources[Path(Route(k))], Path(Route(k)))]
            /\ resources' = [p \in DOMAIN resources |->
                                IF resources[p].post THEN resources[p]
                                ELSE [resources[p] EXCEPT
                                         !.rpcType = rpcTypeOf(resources[p].value)]]
            /\ LET pc == IF reg.n = 0 THEN AfterCreates ELSE "creates"
               IN /\ reg' = [reg EXCEPT !.pc = pc]
                  /\ channel' = Called([channel EXCEPT !.opened = TRUE], pc)
            /\ UNCHANGED rpcClient
       ELSE /\ registerCatch
            /\ UNCHANGED <<subs, creates, resources>>
    /\ UNCHANGED <<endpoint, created, fvars, tvars, dereg, setv, emitted>>
    /\ UNCHANGED qvars

\* CreateSettled going on as soon as one create has resolved
CreateSettledFirst(k, ok) ==
    /\ k \in 1..Len(creates)
    /\ creates[k].st = "pending"
    /\ creates' = [creates EXCEPT ![k].st = IF ok THEN "resolved" ELSE "rejected"]
    /\ IF reg.pc # "creates"
       THEN UNCHANGED <<reg, channel, rpcClient>>
       ELSE IF ~ok THEN registerCatch
       ELSE /\ reg' = [reg EXCEPT !.pc = AfterCreates]
            /\ channel' = Called(channel, AfterCreates)
            /\ UNCHANGED rpcClient
    /\ UNCHANGED <<endpoint, created, fvars, tvars, resources, subs, dereg, setv,
                   emitted>>
    /\ UNCHANGED qvars

\* One create has settled.  Promise.all rejects with the first create that
\* is rejected and resolves when every create has resolved; then
\* registerUpdateResources if supportsUpdate, else rpc.register()
CreateSettled(k, ok) ==
    /\ k \in 1..Len(creates)
    /\ creates[k].st = "pending"
    /\ creates' = [creates EXCEPT ![k].st = IF ok THEN "resolved" ELSE "rejected"]
    /\ IF reg.pc # "creates"
       THEN UNCHANGED <<reg, channel, rpcClient>>
       ELSE IF ~ok THEN registerCatch
       ELSE IF \A j \in 1..Len(creates) : j # k => creates[j].st = "resolved"
       THEN /\ reg' = [reg EXCEPT !.pc = AfterCreates]
            /\ channel' = Called(channel, AfterCreates)
            /\ UNCHANGED rpcClient
       ELSE UNCHANGED <<reg, channel, rpcClient>>
    /\ UNCHANGED <<endpoint, created, fvars, tvars, resources, subs, dereg, setv,
                   emitted>>
    /\ UNCHANGED qvars

\* One await of registerUpdateResources has settled
UpdateCreateSettled(ok) ==
    /\ reg.pc = "update"
    /\ IF ok
       THEN /\ created' = created + 1
            /\ LET pc == IF created + 1 = Len(UpdateResources) THEN "register"
                         ELSE "update"
               IN /\ reg' = [reg EXCEPT !.pc = pc]
                  /\ channel' = Called(channel, pc)
            /\ UNCHANGED rpcClient
       ELSE /\ registerCatch
            /\ UNCHANGED created
    /\ UNCHANGED <<endpoint, fvars, tvars>>
    /\ UNCHANGED xvars

\* this.endpoint = await rpc.register() has settled, with the endpoint the
\* channel returns; register returns this.endpoint
RegisterSettled(ok) ==
    /\ reg.pc = "register"
    /\ IF ok
       THEN \E ep \in Endpoints :
               /\ channel' = [channel EXCEPT !.returned = ep]
               /\ endpoint' = ep
               /\ reg' = [reg EXCEPT !.pc = "done", !.result = ep]
               /\ UNCHANGED rpcClient
       ELSE /\ registerCatch
            /\ UNCHANGED endpoint
    /\ UNCHANGED <<created, fvars, tvars, xvars>>

\* ----------------------------------------------------- MbedDevice: FOTA
\* An operation's pc names the await it is at; tried holds the steps it
\* has started; clean says that no push failed and no handle was missing.
Active(i) == procs[i].pc \notin {"idle", "end"}
FreeSlot(i) == ~Active(i) /\ \A j \in 1..(i - 1) : Active(j)
Goto(p, pc) == [p EXCEPT !.pc = pc, !.tried = @ \cup {pc}]
End(p) == [p EXCEPT !.pc = "end"]
NewProc(kind, pc) == Goto([IdleProc EXCEPT !.kind = kind], pc)
\* undefined.setValue: a TypeError rejects the async function
TypeError(p) == [End(p) EXCEPT !.clean = FALSE]

\* The value each push of the state resource 5/0/3 sets
StateValue(pc) ==
    CASE pc = "set_downloading" -> ARM_UC_MONITOR_STATE_DOWNLOADING
      [] pc = "set_downloaded" -> ARM_UC_MONITOR_STATE_DOWNLOADED
      [] pc = "upd_state" -> ARM_UC_MONITOR_STATE_UPDATING
      [] pc \in {"reset_state", "vf_state", "df_state", "err_state", "cmp_state"} ->
            ARM_UC_MONITOR_STATE_NONE

\* The download's catch pushing the result of the verification's catch
ResultValueOfVerify(pc) ==
    CASE pc = "reset_result" -> ARM_UC_MONITOR_RESULT_NONE
      [] pc \in {"vf_result", "df_result", "err_result"} ->
            ARM_UC_MONITOR_RESULT_ERROR_UPDATE
      [] pc = "cmp_result" -> ARM_UC_MONITOR_RESULT_SUCCESS

\* The value each push of the result resource 5/0/5 sets
ResultValue(pc) ==
    CASE pc = "reset_result" -> ARM_UC_MONITOR_RESULT_NONE
      [] pc \in {"vf_result", "err_result"} -> ARM_UC_MONITOR_RESULT_ERROR_UPDATE
      [] pc = "df_result" -> ARM_UC_MONITOR_RESULT_ERROR_URI
      [] pc = "cmp_result" -> ARM_UC_MONITOR_RESULT_SUCCESS

\* The setValue each await of the 5/0/0 handler and of the setFota* methods
\* is for: the resource and the value (arg: the value read from this.manifest
\* when setFotaComplete made the call)
PushOf(pc, arg) ==
    CASE pc \in {"reset_state", "vf_state", "set_downloading", "df_state",
                 "set_downloaded", "upd_state", "err_state", "cmp_state"} ->
            [res |-> "5/0/3", val |-> StateValue(pc)]
      [] pc \in {"reset_result", "vf_result", "df_result", "err_result",
                 "cmp_result"} ->
            [res |-> "5/0/5", val |-> ResultValue(pc)]
      [] pc = "reset_name" -> [res |-> "5/0/6", val |-> <<>>]
      [] pc = "cmp_name" -> [res |-> "5/0/6", val |-> arg]
      [] pc = "reset_version" -> [res |-> "5/0/7", val |-> <<>>]
      [] pc = "cmp_version" -> [res |-> "5/0/7", val |-> arg]
PushPcs == {"reset_state", "reset_result", "reset_name", "reset_version",
            "vf_state", "vf_result", "set_downloading", "df_state", "df_result",
            "set_downloaded", "upd_state", "err_state", "err_result",
            "cmp_result", "cmp_name", "cmp_version", "cmp_state"}

\* The handler emitting fota once the push of Downloading has completed
AfterPushEmittingEarly(p) ==
    CASE p.pc = "reset_state" -> Goto(p, "reset_result")
      [] p.pc = "reset_result" -> Goto(p, "reset_name")
      [] p.pc = "reset_name" -> Goto(p, "reset_version")
      [] p.pc = "reset_version" -> Goto(p, "verify")
      [] p.pc = "vf_state" -> Goto(p, "vf_result")
      [] p.pc = "vf_result" -> End(p)
      [] p.pc = "set_downloading" ->
            [Goto(p, "download") EXCEPT !.tried = @ \cup {"fota"}, !.fota = @ + 1]
      [] p.pc = "df_state" -> Goto(p, "df_result")
      [] p.pc = "df_result" -> End(p)
      [] p.pc = "set_downloaded" -> [End(p) EXCEPT !.tried = @ \cup {"fota"}, !.fota = @ + 1]
      [] p.pc = "upd_state" -> End(p)
      [] p.pc = "err_state" -> Goto(p, "err_result")
      [] p.pc = "err_result" -> End(p)
      [] p.pc = "cmp_result" ->
            IF manifest = NoManifest \/ ~HasHandle("5/0/6") THEN TypeError(p)
            ELSE [Goto(p, "cmp_name") EXCEPT !.arg = manifest.hash]
      [] p.pc = "cmp_name" ->
            IF ~HasHandle("5/0/7") THEN TypeError(p)
            ELSE [Goto(p, "cmp_version") EXCEPT !.arg = toString(manifest.timestamp)]
      [] p.pc = "cmp_version" -> Goto(p, "cmp_state")
      [] p.pc = "cmp_state" -> End(p)

\* What the operation does when its setValue has resolved: the next await,
\* or its end (a throw into the handler's catch, the fota event, a return)
AfterPush(p) ==
    CASE p.pc = "reset_state" -> Goto(p, "reset_result")
      [] p.pc = "reset_result" -> Goto(p, "reset_name")
      [] p.pc = "reset_name" -> Goto(p, "reset_version")
      [] p.pc = "reset_version" -> Goto(p, "verify")
      [] p.pc = "vf_state" -> Goto(p, "vf_result")
      [] p.pc = "vf_result" -> End(p)
      [] p.pc = "set_downloading" -> Goto(p, "download")
      [] p.pc = "df_state" -> Goto(p, "df_result")
      [] p.pc = "df_result" -> End(p)
      [] p.pc = "set_downloaded" -> [End(p) EXCEPT !.tried = @ \cup {"fota"}, !.fota = @ + 1]
      [] p.pc = "upd_state" -> End(p)
      [] p.pc = "err_state" -> Goto(p, "err_result")
      [] p.pc = "err_result" -> End(p)
      [] p.pc = "cmp_result" ->
            IF manifest = NoManifest \/ ~HasHandle("5/0/6") THEN TypeError(p)
            ELSE [Goto(p, "cmp_name") EXCEPT !.arg = manifest.hash]
      [] p.pc = "cmp_name" ->
            IF ~HasHandle("5/0/7") THEN TypeError(p)
            ELSE [Goto(p, "cmp_version") EXCEPT !.arg = toString(manifest.timestamp)]
      [] p.pc = "cmp_version" -> Goto(p, "cmp_state")
      [] p.pc = "cmp_state" -> End(p)

\* History: the operations that ended one after another with every push
\* made and successful: a run of the handler with its outcome, then
\* setFotaUpdating, then setFotaComplete
Ended(sc, p) ==
    CASE ~p.clean -> NoScenario
      [] p.clean /\ p.kind = "run" ->
            IF "fota" \in p.tried THEN [stage |-> "ok", manifest |-> p.manifest]
            ELSE IF "vf_result" \in p.tried
            THEN [stage |-> "verify failed", manifest |-> NoManifest]
            ELSE [stage |-> "download failed", manifest |-> NoManifest]
      [] p.clean /\ p.kind = "updating" ->
            IF sc.stage = "ok" THEN [sc EXCEPT !.stage = "updating"] ELSE NoScenario
      [] p.clean /\ p.kind = "complete" ->
            IF sc.stage = "updating" THEN [sc EXCEPT !.stage = "complete"]
            ELSE NoScenario
      [] OTHER -> NoScenario
History(i, q) ==
    IF q.pc # "end" THEN scenario
    ELSE IF \E j \in 1..MaxProcs : j # i /\ Active(j) THEN NoScenario
    ELSE Ended(scenario, q)

\* The gateway executes 5/0/0: the handler starts with the reset pushes
ManifestReceived(i) ==
    /\ HasHandle("5/0/0")
    /\ FreeSlot(i)
    /\ procs' = [procs EXCEPT ![i] = NewProc("run", "reset_state")]
    /\ UNCHANGED <<rpcClient, channel, endpoint, reg, created, fwState, fwResult,
                   fwName, fwVersion, manifest, scenario, fotaManifest, tvars>>
    /\ UNCHANGED xvars

\* A setFota* method starts with the setValue of its first handle
Started(kind, pc, path) ==
    IF HasHandle(path) THEN NewProc(kind, pc)
    ELSE TypeError([IdleProc EXCEPT !.kind = kind])

\* setFotaUpdating(): await this.fwState.setValue(UPDATING)
setFotaUpdating(i) ==
    /\ FreeSlot(i)
    /\ LET q == Started("updating", "upd_state", "5/0/3")
       IN /\ procs' = [procs EXCEPT ![i] = q]
          /\ scenario' = History(i, q)
    /\ UNCHANGED <<rpcClient, channel, endpoint, reg, created, fwState, fwResult,
                   fwName, fwVersion, manifest, fotaManifest, tvars>>
    /\ UNCHANGED xvars

\* setFotaError(error): state None, then result ErrorUpdate
setFotaError(i) ==
    /\ FreeSlot(i)
    /\ LET q == Started("error", "err_state", "5/0/3")
       IN /\ procs' = [procs EXCEPT ![i] = q]
          /\ scenario' = History(i, q)
    /\ UNCHANGED <<rpcClient, channel, endpoint, reg, created, fwState, fwResult,
                   fwName, fwVersion, manifest, fotaManifest, tvars>>
    /\ UNCHANGED xvars

\* setFotaComplete(): result Success, then name, version, state None
setFotaComplete(i) ==
    /\ FreeSlot(i)
    /\ LET q == Started("complete", "cmp_result", "5/0/5")
       IN /\ procs' = [procs EXCEPT ![i] = q]
          /\ scenario' = History(i, q)
    /\ UNCHANGED <<rpcClient, channel, endpoint, reg, created, fwState, fwResult,
                   fwName, fwVersion, manifest, fotaManifest, tvars>>
    /\ UNCHANGED xvars

\* The setValue an operation awaits has settled: resolved, the resource has
\* the value and the operation goes on; rejected, the operation throws
PushSettled(i, ok) ==
    /\ procs[i].pc \in PushPcs
    /\ LET p == procs[i]
           push == PushOf(p.pc, p.arg)
           q == IF ok THEN AfterPush(p) ELSE [End(p) EXCEPT !.clean = FALSE]
       IN /\ fwState' = IF ok /\ push.res = "5/0/3" THEN push.val ELSE fwState
          /\ fwResult' = IF ok /\ push.res = "5/0/5" THEN push.val ELSE fwResult
          /\ fwName' = IF ok /\ push.res = "5/0/6" THEN push.val ELSE fwName
          /\ fwVersion' = IF ok /\ push.res = "5/0/7" THEN push.val ELSE fwVersion
          /\ procs' = [procs EXCEPT ![i] = q]
          /\ scenario' = History(i, q)
          /\ fotaManifest' = IF q.fota > p.fota THEN p.manifest ELSE fotaManifest
    /\ UNCHANGED <<rpcClient, channel, endpoint, reg, created, manifest, tvars>>
    /\ UNCHANGED xvars

\* parseAndVerifyManifest has settled: with a manifest m (this.manifest is
\* set, then the push of Downloading), or with an error (the failure pushes)
VerifySettled(i, m) ==
    /\ procs[i].pc = "verify"
    /\ IF m # NoManifest
       THEN /\ manifest' = m
            /\ procs' = [procs EXCEPT ![i] =
                            Goto([@ EXCEPT !.manifest = m], "set_downloading")]
       ELSE /\ procs' = [procs EXCEPT ![i] = Goto(@, "vf_state")]
            /\ UNCHANGED manifest
    /\ UNCHANGED <<rpcClient, channel, endpoint, reg, created, fwState, fwResult,
                   fwName, fwVersion, scenario, fotaManifest, tvars>>
    /\ UNCHANGED xvars

\* downloadAndVerifyFirmware has settled
DownloadSettled(i, ok) ==
    /\ procs[i].pc = "download"
    /\ procs' = [procs EXCEPT ![i] = Goto(@, IF ok THEN "set_downloaded"
                                             ELSE "df_state")]
    /\ UNCHANGED <<rpcClient, channel, endpoint, reg, created, fwState, fwResult,
                   fwName, fwVersion, manifest, scenario, fotaManifest, tvars>>
    /\ UNCHANGED xvars

\* The manifest the interleaved runs verify: the oldest of Manifests
OldestManifest ==
    CHOOSE m \in Manifests : \A n \in Manifests : m.timestamp <= n.timestamp

\* One device: register, then the gateway's and the updater's calls in any
\* interleaving; every run that verifies its manifest is for the same one
NextDevice ==
    \/ \E su \in BOOLEAN : reg.pc = "idle" /\ register(<<>>, su)
    \/ \E ok \in BOOLEAN : OpenSettled(ok)
    \/ \E ok \in BOOLEAN : UpdateCreateSettled(ok)
    \/ \E ok \in BOOLEAN : RegisterSettled(ok)
    \/ \E i \in 1..MaxProcs : ManifestReceived(i)
    \/ \E i \in 1..MaxProcs : setFotaUpdating(i)
    \/ \E i \in 1..MaxProcs : setFotaError(i)
    \/ \E i \in 1..MaxProcs : setFotaComplete(i)
    \/ \E i \in 1..MaxProcs, ok \in BOOLEAN : PushSettled(i, ok)
    \/ \E i \in 1..MaxProcs, m \in {OldestManifest, NoManifest} : VerifySettled(i, m)
    \/ \E i \in 1..MaxProcs, ok \in BOOLEAN : DownloadSettled(i, ok)

SpecDevice == Init /\ [][NextDevice]_vars

\* Nothing of the device is under way
Quiet ==
    /\ reg.pc \in {"idle", "done", "failed"}
    /\ \A i \in 1..MaxProcs : ~Active(i)

\* One device whose operations run one after another: an operation starts
\* when the one before it has ended
NextFotaSeq ==
    \/ \E su \in BOOLEAN : reg.pc = "idle" /\ Quiet /\ register(<<>>, su)
    \/ \E ok \in BOOLEAN : OpenSettled(ok)
    \/ \E ok \in BOOLEAN : UpdateCreateSettled(ok)
    \/ \E ok \in BOOLEAN : RegisterSettled(ok)
    \/ \E i \in 1..MaxProcs : Quiet /\ ManifestReceived(i)
    \/ \E i \in 1..MaxProcs : Quiet /\ setFotaUpdating(i)
    \/ \E i \in 1..MaxProcs : Quiet /\ setFotaError(i)
    \/ \E i \in 1..MaxProcs : Quiet /\ setFotaComplete(i)
    \/ \E i \in 1..MaxProcs, ok \in BOOLEAN : PushSettled(i, ok)
    \/ \E i \in 1..MaxProcs, m \in Manifests \cup {NoManifest} : VerifySettled(i, m)
    \/ \E i \in 1..MaxProcs, ok \in BOOLEAN : DownloadSettled(i, ok)

SpecFotaSeq == Init /\ [][NextFotaSeq]_vars

\* ---------------------------------------------------- MbedDevice: session
\* this.rpcClient && this.rpcClient.is_open
ChannelOpen == rpcClient /\ channel.opened /\ ~channel.terminated

\* deregister(): with an open channel, await rpc.unregister(); else only
\* this.endpoint = ''
deregister ==
    /\ dereg.pc \in {"idle", "done", "failed"}
    /\ IF ChannelOpen
       THEN /\ dereg' = [pc |-> "unregister", wasOpen |-> TRUE, unregisters |-> 1,
                         terminates |-> 0]
            /\ channel' = [channel EXCEPT !.unregistered = TRUE]
            /\ UNCHANGED endpoint
       ELSE /\ dereg' = [pc |-> "done", wasOpen |-> FALSE, unregisters |-> 0,
                         terminates |-> 0]
            /\ endpoint' = ""
            /\ UNCHANGED channel
    /\ UNCHANGED <<rpcClient, reg, created, fvars, tvars, resources, creates, subs,
                   setv, emitted>>
    /\ UNCHANGED qvars

\* deregister letting the failure of rpc.unregister() through
UnregisterSettledOrThrown(ok) ==
    /\ dereg.pc = "unregister"
    /\ IF rpcClient /\ ok
       THEN /\ channel' = [channel EXCEPT !.terminated = TRUE]
            /\ dereg' = [dereg EXCEPT !.pc = "done", !.terminates = @ + 1]
            /\ endpoint' = ""
       ELSE /\ dereg' = [dereg EXCEPT !.pc = "failed"]
            /\ UNCHANGED <<channel, endpoint>>
    /\ UNCHANGED <<rpcClient, reg, created, fvars, tvars, resources, creates, subs,
                   setv, emitted>>
    /\ UNCHANGED qvars

\* rpc.unregister() has settled (a failure is logged): this.rpcClient
\* .terminate(), this.endpoint = ''.  Without this.rpcClient the call of
\* terminate throws a TypeError.
UnregisterSettled(ok) ==
    /\ dereg.pc = "unregister"
    /\ IF rpcClient
       THEN /\ channel' = [channel EXCEPT !.terminated = TRUE]
            /\ dereg' = [dereg EXCEPT !.pc = "done", !.terminates = @ + 1]
            /\ endpoint' = ""
       ELSE /\ dereg' = [dereg EXCEPT !.pc = "failed"]
            /\ UNCHANGED <<channel, endpoint>>
    /\ UNCHANGED <<rpcClient, reg, created, fvars, tvars, resources, creates, subs,
                   setv, emitted>>
    /\ UNCHANGED qvars

\* this.resources[path].value = value; a TypeError without such a resource
SetLocal(call) ==
    IF call.path \in DOMAIN resources
    THEN /\ resources' = [resources EXCEPT ![call.path].value = call.value]
         /\ setv' = [call EXCEPT !.pc = "done"]
    ELSE /\ setv' = [call EXCEPT !.pc = "failed", !.err = "TypeError"]
         /\ UNCHANGED resources

\* setValue setting the local value before the push has settled
setValueLocalFirst(path, value) ==
    /\ setv.pc # "push"
    /\ LET call == [pc |-> "push", path |-> path, value |-> value,
                    pushed |-> FALSE, err |-> ""]
       IN IF ChannelOpen
          THEN /\ setv' = call
               /\ resources' = IF path \in DOMAIN resources
                               THEN [resources EXCEPT ![path].value = value]
                               ELSE resources
          ELSE SetLocal(call)
    /\ UNCHANGED <<dvars, tvars, creates, subs, dereg, emitted>>
    /\ UNCHANGED qvars

\* setValue(path, value): with an open channel, await rpc._setValue first
setValue(path, value) ==
    /\ setv.pc # "push"
    /\ LET call == [pc |-> "push", path |-> path, value |-> value,
                    pushed |-> FALSE, err |-> ""]
       IN IF ChannelOpen
          THEN /\ setv' = call
               /\ UNCHANGED resources
          ELSE SetLocal(call)
    /\ UNCHANGED <<dvars, tvars, creates, subs, dereg, emitted>>
    /\ UNCHANGED qvars

\* rpc._setValue has settled: resolved, the local value is set and returned;
\* rejected, the error is thrown again
SetValueSettled(ok) ==
    /\ setv.pc = "push"
    /\ IF ok
       THEN SetLocal([setv EXCEPT !.pushed = TRUE])
       ELSE /\ setv' = [setv EXCEPT !.pc = "failed", !.err = "push"]
            /\ UNCHANGED resources
    /\ UNCHANGED <<dvars, tvars, creates, subs, dereg, emitted>>
    /\ UNCHANGED qvars

\* The value onUpdated reads from the payload n of the event: the number n
\* for an Int or a Float resource, else the string of n
Coerce(rpcType, n) ==
    IF rpcType \in {"Int", "Float"} THEN [kind |-> "number", x |-> 10 * n]
    ELSE [kind |-> "string", x |-> n]

\* onUpdated without its test of deviceId
ResourceUpdatedAnyDevice(mine, route, n) ==
    LET path == Path(route)
    IN /\ IF path \in DOMAIN resources
          THEN LET v == Coerce(resources[path].rpcType, n)
               IN /\ resources' = [resources EXCEPT ![path].value = v]
                  /\ emitted' = [ev |-> "resource-updated", mine |-> mine,
                                 route |-> route,
                                 notes |-> <<[type |-> "put", path |-> path,
                                              value |-> v]>>]
          ELSE /\ emitted' = [ev |-> "resource-updated", mine |-> mine,
                              route |-> route, notes |-> <<>>]
               /\ UNCHANGED resources
       /\ UNCHANGED <<dvars, tvars, creates, subs, dereg, setv>>
       /\ UNCHANGED qvars

\* edgeRpc's 'resource-updated' (deviceId, path, newValue): onUpdated.  mine
\* says that deviceId is this.id.
ResourceUpdated(mine, route, n) ==
    LET path == Path(route)
    IN /\ IF mine /\ path \in DOMAIN resources
          THEN LET v == Coerce(resources[path].rpcType, n)
               IN /\ resources' = [resources EXCEPT ![path].value = v]
                  /\ emitted' = [ev |-> "resource-updated", mine |-> mine,
                                 route |-> route,
                                 notes |-> <<[type |-> "put", path |-> path,
                                              value |-> v]>>]
          ELSE /\ emitted' = [ev |-> "resource-updated", mine |-> mine,
                              route |-> route, notes |-> <<>>]
               /\ UNCHANGED resources
       /\ UNCHANGED <<dvars, tvars, creates, subs, dereg, setv>>
       /\ UNCHANGED qvars

\* edgeRpc's 'resource-executed' (deviceId, route, data): every listener
\* register() has added emits post unless deviceId is another device's
ResourceExecuted(mine, route) ==
    /\ emitted' = [ev |-> "resource-executed", mine |-> mine, route |-> route,
                   notes |-> IF mine
                             THEN [i \in 1..subs |->
                                     [type |-> "post", path |-> Path(route),
                                      value |-> [kind |-> "string", x |-> 0]]]
                             ELSE <<>>]
    /\ UNCHANGED <<dvars, tvars, resources, creates, subs, dereg, setv>>
    /\ UNCHANGED qvars

\* The routes of the events: that of a model's first entry and one that no
\* model has
Routes == {Route(1), Route(MaxEntries + 1)}
Payloads == {1}
\* The values setValue is called with
SetValues == {[kind |-> "string", x |-> 0], [kind |-> "number", x |-> 15]}

\* One session without update support: register and deregister one after
\* another, and the 'resource-executed' events of the Transport at any time
NextSession ==
    \/ \E m \in Models : dereg.pc # "unregister" /\ register(m, FALSE)
    \/ \E ok \in BOOLEAN : OpenSettled(ok)
    \/ \E k \in 1..MaxEntries, ok \in BOOLEAN : CreateSettled(k, ok)
    \/ \E ok \in BOOLEAN : RegisterSettled(ok)
    \/ reg.pc \in {"idle", "done", "failed"} /\ deregister
    \/ \E ok \in BOOLEAN : UnregisterSettled(ok)
    \/ \E mine \in BOOLEAN : ResourceExecuted(mine, Route(1))

SpecSession == Init /\ [][NextSession]_vars

\* The values of one registration: setValue and the 'resource-updated' events
\* of the Transport before, while and after register() runs
NextValues ==
    \/ \E m \in Models : reg.pc = "idle" /\ register(m, FALSE)
    \/ \E ok \in BOOLEAN : OpenSettled(ok)
    \/ \E k \in 1..MaxEntries, ok \in BOOLEAN : CreateSettled(k, ok)
    \/ \E ok \in BOOLEAN : RegisterSettled(ok)
    \/ \E r \in Routes, v \in SetValues : setValue(Path(r), v)
    \/ \E ok \in BOOLEAN : SetValueSettled(ok)
    \/ \E mine \in BOOLEAN, r \in Routes, n \in Payloads : ResourceUpdated(mine, r, n)

SpecValues == Init /\ [][NextValues]_vars

\* ------------------------------------------------------ claims: Transport
Pending == {id \in 1..rpcId : calls[id].st = "pending"}

\* C1: when the socket closes, every outstanding call is rejected with
\* ConnectionLost in that very step; none is left pending.
C1_CloseRejectsPending ==
    [][(client = "connected" /\ client' = "closed") =>
         \A id \in Pending :
             calls'[id].st = "rejected" /\ calls'[id].err = "ConnectionLost"]_vars

\* C2: a call is settled at most once; its timer leaves it rejected with
\* Timeout; only an answer to its own id that the peer wrote before the call
\* was settled ever resolves it or rejects it with the peer's outcome, so a
\* late frame settles neither the timed-out call nor any other call.
C2_TimeoutSettlesOnce ==
    \A id \in 1..rpcId :
        LET c == calls[id]
            answered == id \in DOMAIN answers
        IN /\ c.n <= 1
           /\ (c.st = "pending") = (c.n = 0)
           /\ ~c.timer => c.st # "pending"
           /\ c.err = "Timeout" => c.st = "rejected"
           /\ (c.st = "resolved" \/ c.err \in {"RemoteError", "NoResultOrError"}) =>
                 answered /\ answers[id] # "late"
           /\ (c.st # "pending" /\ answered /\ answers[id] = "late") =>
                 c.err \in {"Timeout", "TypeError"}

\* C2's case: a call timed out, the peer answered it afterwards, the whole
\* answer was delivered, and another call is still outstanding
C2_LateFrameDropped ==
    \E id \in 1..rpcId, j \in 1..rpcId :
        /\ calls[id].err = "Timeout"
        /\ id \in DOMAIN answers
        /\ answers[id] = "late"
        /\ wire = <<>>
        /\ client = "connected"
        /\ bytes_left = 0
        /\ calls[j].st = "pending"

\* C3: a whole frame {jsonrpc:"2.0", id, result: v} delivered for an
\* outstanding call resolves it with v, for every value v, falsy ones
\* included; the call is rejected when the frame has an error field or neither.
C3_ResultResolvesUnchanged ==
    [][\A id \in 1..MaxCalls, a \in PeerAnswers :
         ( /\ id \in Pending
           /\ client = "connected" /\ client' = "connected"
           /\ bytes_left = 0
           /\ Len(wire) >= FrameWords
           /\ SubSeq(wire, 1, FrameWords) = JsonFrame(id, a[1], a[2])
           /\ wire' = SubSeq(wire, FrameWords + 1, Len(wire)) )
         => IF a[1] = HasResult
            THEN calls'[id].st = "resolved" /\ calls'[id].val = a[2]
            ELSE calls'[id].st = "rejected"]_vars

\* The frames a peer may write
PossibleFrames == {JsonFrame(id, a[1], a[2]) : id \in 1..MaxCalls, a \in PeerAnswers}
\* _buffer and _bytes_left hold the part of one frame received so far
BufferIntact ==
    IF bytes_left = 0 THEN buffer = <<>>
    ELSE \E f \in PossibleFrames :
            /\ Len(buffer) < Len(f)
            /\ SubSeq(f, 1, Len(buffer)) = buffer
            /\ bytes_left = ByteLength(f) - ByteLength(buffer)

\* C4: with two or more calls outstanding, the partial-frame state stays the
\* received part of one frame, and a call whose answer (a truthy result) was
\* delivered completely, in whatever pieces and order, is resolved.
C4_ConcurrentCallsResolved ==
    Cardinality(Pending) >= 2 =>
        /\ BufferIntact
        /\ \A id \in Pending :
              ~(id \in DOMAIN answers /\ answers[id] = "ok"
                /\ wire = <<>> /\ client = "connected")

\* C5: init goes on to START only after a control frame ACCEPT, and once the
\* first data after READY has arrived (or the 10 s have passed) init is no
\* longer waiting: it has gone on or failed.
C5_InitSettlesAtAccept ==
    ctl.owner = "init" =>
        /\ initPc \in {"grace", "await_register", "done"} =>
              ctl.st = "resolved" /\ Len(ctl.val) > 0
              /\ ctl.val[1] = FSTRM_CONTROL_ACCEPT
        /\ ~ctl.timer => initPc # "await_accept"

\* C6: when deinit on an open Transport has ended, with success or with an
\* error, the socket is destroyed.
C6_DeinitDestroysSocket ==
    deinitPc \in {"done", "failed"} => client \in {"destroyed", "closed"}

\* ----------------------------------------------------- claims: MbedDevice
FotaSteps == {<<ARM_UC_MONITOR_STATE_NONE, ARM_UC_MONITOR_STATE_DOWNLOADING>>,
              <<ARM_UC_MONITOR_STATE_DOWNLOADING, ARM_UC_MONITOR_STATE_DOWNLOADED>>,
              <<ARM_UC_MONITOR_STATE_DOWNLOADED, ARM_UC_MONITOR_STATE_UPDATING>>,
              <<ARM_UC_MONITOR_STATE_UPDATING, ARM_UC_MONITOR_STATE_NONE>>}
\* The step is a push of state None after a failed verification or download,
\* or the one of setFotaError
FailureReset ==
    \E i \in 1..MaxProcs : /\ procs[i].pc \in {"vf_state", "df_state", "err_state"}
                           /\ procs'[i] # procs[i]

\* C7: over every interleaving of the manifest-received handler and the
\* setFota* methods, each change of the FOTA state is None->Downloading,
\* Downloading->Downloaded, Downloaded->Updating, Updating->None, or a reset
\* to None from Downloading or Downloaded made on a failure.
C7_FotaTransitionsLegal ==
    [][fwState' # fwState =>
         \/ <<fwState, fwState'>> \in FotaSteps
         \/ /\ fwState \in {ARM_UC_MONITOR_STATE_DOWNLOADING,
                            ARM_UC_MONITOR_STATE_DOWNLOADED}
            /\ fwState' = ARM_UC_MONITOR_STATE_NONE
            /\ FailureReset]_vars

\* parseInt of a string of decimal digits
RECURSIVE parseInt(_)
parseInt(str) ==
    IF str = <<>> THEN 0
    ELSE 10 * parseInt(SubSeq(str, 1, Len(str) - 1)) + str[Len(str)]

\* C8: with every push successful, a run whose verification fails ends in
\* (None, ErrorUpdate); a run whose download fails ends in (None, ErrorUri);
\* a run that succeeds, then setFotaUpdating, then setFotaComplete end in
\* (None, Success, name = the manifest's hash, version = its timestamp).
C8_FotaEndStates ==
    Quiet =>
      /\ scenario.stage = "verify failed" =>
            /\ fwState = ARM_UC_MONITOR_STATE_NONE
            /\ fwResult = ARM_UC_MONITOR_RESULT_ERROR_UPDATE
      /\ scenario.stage = "download failed" =>
            /\ fwState = ARM_UC_MONITOR_STATE_NONE
            /\ fwResult = ARM_UC_MONITOR_RESULT_ERROR_URI
      /\ scenario.stage = "complete" =>
            /\ fwState = ARM_UC_MONITOR_STATE_NONE
            /\ fwResult = ARM_UC_MONITOR_RESULT_SUCCESS
            /\ fwName = scenario.manifest.hash
            /\ fwVersion # <<>>
            /\ parseInt(fwVersion) = scenario.manifest.timestamp

\* A successful run, setFotaUpdating and setFotaComplete have ended one after
\* another, every push of theirs successful
C8_UpdateCompleted ==
    /\ Quiet
    /\ scenario.stage = "complete"
    /\ scenario.manifest \in Manifests
    /\ \E i \in 1..MaxProcs : procs[i].kind = "complete" /\ procs[i].pc = "end"

\* C9: a failed push does not abort the manifest-received flow: a run that
\* has ended has verified the manifest; after a verification it has pushed
\* Downloading and downloaded; after a download it has pushed Downloaded and
\* emitted fota; on a failure path it has pushed the error result after the
\* push of state None.
C9_PushFailureDoesNotAbort ==
    \A i \in 1..MaxProcs :
        procs[i].kind = "run" /\ procs[i].pc = "end" =>
            LET t == procs[i].tried
            IN /\ "verify" \in t
               /\ "vf_state" \in t => "vf_result" \in t
               /\ "vf_state" \notin t => {"set_downloading", "download"} \subseteq t
               /\ "df_state" \in t => "df_result" \in t
               /\ ("download" \in t /\ "df_state" \notin t) =>
                     {"set_downloaded", "fota"} \subseteq t

\* C10: a register that failed after its channel was opened has attempted
\* the channel's unregister, has terminated the channel and has discarded
\* this.rpcClient.
C10_FailedRegisterTearsDown ==
    (reg.pc = "failed" /\ channel.opened) =>
        /\ channel.unregistered
        /\ channel.terminated
        /\ ~rpcClient

\* -------------------------------------------------------- claims: session
\* The resource map with the value of one path replaced, when there is one
WithValue(res, path, value) ==
    IF path \in DOMAIN res THEN [res EXCEPT ![path].value = value] ELSE res

\* C11: a setValue call made with an open channel leaves every local value
\* as it is until the remote push has settled; a push that succeeded sets
\* the local value of the path and of no other; a push that failed fails the
\* call with the push's error and changes no local value; a call made without
\* an open channel sets the local value at once.
C11_SetValuePushesFirst ==
    [][/\ (setv.pc # "push" /\ setv' # setv) =>
              IF ChannelOpen
              THEN setv'.pc = "push" /\ resources' = resources
              ELSE /\ setv'.pc # "push" /\ ~setv'.pushed
                   /\ resources' = WithValue(resources, setv'.path, setv'.value)
       /\ (setv.pc = "push" /\ setv' # setv) =>
              IF setv'.pushed
              THEN resources' = WithValue(resources, setv.path, setv.value)
              ELSE /\ resources' = resources
                   /\ setv'.pc = "failed" /\ setv'.err = "push"]_vars

C11_PushedThenSet ==
    /\ setv.pc = "done" /\ setv.pushed
    /\ setv.path \in DOMAIN resources
    /\ resources[setv.path].value = setv.value
    /\ \E p \in DOMAIN resources : p # setv.path

\* C12: a register without update support whose channel is open has issued
\* one create for every entry of its model, in the model's order: a function
\* for an entry with the POST operation, else a String, Int or Float
\* resource; the channel's register() is called at most once, and only when
\* every create has resolved; the endpoint register returns is the one the
\* channel's register() resolved to.
C12_CreatesThenRegister ==
    /\ (reg.pc \in {"creates", "register", "done"} /\ ~reg.supportsUpdate) =>
          /\ Len(creates) = reg.n
          /\ DOMAIN resources = {Path(Route(k)) : k \in 1..reg.n}
          /\ \A k \in 1..reg.n :
                LET l == resources[Path(Route(k))]
                IN /\ creates[k].path = Route(k)
                   /\ l.post => creates[k].kind = "function"
                   /\ ~l.post => creates[k].kind \in {"String", "Int", "Float"}
    /\ channel.registers <= 1
    /\ channel.registers = 1 =>
          \A k \in 1..Len(creates) : creates[k].st = "resolved"
    /\ reg.pc \in {"register", "done"} => channel.registers = 1
    /\ reg.pc = "done" =>
          /\ reg.result \in Endpoints
          /\ reg.result = channel.returned

C12_RegisteredModel ==
    /\ reg.pc = "done"
    /\ reg.n = MaxEntries
    /\ \E k \in 1..reg.n : creates[k].kind = "function"
    /\ \E k \in 1..reg.n : creates[k].kind # "function"
    /\ reg.result = "endpoint-b"

\* The elements of a sequence
RangeOf(seq) == {seq[i] : i \in DOMAIN seq}

\* The pieces of a text between its colons
RECURSIVE Pieces(_, _)
Pieces(text, piece) ==
    IF text = <<>> THEN <<piece>>
    ELSE IF Head(text) = ":" THEN <<piece>> \o Pieces(Tail(text), <<>>)
    ELSE Pieces(Tail(text), Append(piece, Head(text)))

\* The events of a poll are those of the list's items of method 1 and 2, in
\* the list's order, with the item's route and the bytes the item's value
\* is the base64 text of
EventsOfItems ==
    LET kept == SelectSeq(poll.q, LAMBDA item : item.method \in {1, 2})
    IN /\ Len(poll.events) = Len(kept)
       /\ \A i \in 1..Len(kept) :
             /\ poll.events[i].type = IF kept[i].method = 1 THEN "resource-updated"
                                      ELSE "resource-executed"
             /\ poll.events[i].route =
                   <<kept[i].object_id, "/", kept[i].object_instance_id, "/",
                     kept[i].resource_id>>
             /\ Base64(poll.events[i].buff) = kept[i].value
             /\ SelectSeq(poll.events[i].deviceId, LAMBDA c : c # ":")
                   = kept[i].device_id

\* C13 as stated: one event per item of method 1 or 2, in list order, none
\* for another method, each with the route, the decoded bytes and the device
\* id as colon-separated two-digit pairs.
C13_EventsCarryDigitPairs ==
    poll.done =>
        /\ EventsOfItems
        /\ \A i \in 1..Len(poll.events) :
              \A piece \in RangeOf(Pieces(poll.events[i].deviceId, <<>>)) :
                  Len(piece) = 2

\* C13 amended: one event per item of method 1 or 2, in list order, none
\* for another method, each with the route, the decoded bytes and the device
\* id cut into two-digit pairs from the left and joined with colons, the
\* last piece being a single digit when the number of digits is odd.
C13_EventsCarryDigitPieces ==
    poll.done =>
        /\ EventsOfItems
        /\ \A i \in 1..Len(poll.events) :
              LET pieces == Pieces(poll.events[i].deviceId, <<>>)
                  digits == Len(SelectSeq(poll.events[i].deviceId,
                                          LAMBDA c : c # ":"))
              IN /\ \A j \in 1..(Len(pieces) - 1) : Len(pieces[j]) = 2
                 /\ Len(pieces[Len(pieces)]) = IF digits % 2 = 0 THEN 2 ELSE 1

C13_OddDeviceIdPolled ==
    /\ poll.done
    /\ Len(poll.q) = MaxQueue
    /\ Len(poll.events) = 1
    /\ poll.events[1].deviceId = <<"0", "1", ":", "2">>
    /\ poll.events[1].buff = <<1, 2, 3, 4>>

\* C16: the bytes written for a control command of opcode 1..5 and any
\* content, read as one control-frame response, resolve to the same opcode
\* and the same content.
C16_ControlFrameRoundTrip ==
    codec.st \notin {"idle", "written"} =>
        /\ codec.st = "resolved"
        /\ codec.type = codec.op
        /\ codec.data = codec.content

C16_LongestContentRead ==
    /\ codec.st = "resolved"
    /\ codec.op = FSTRM_CONTROL_FINISH
    /\ Len(codec.content) = MaxContent
    /\ codec.written[8] = 4 + MaxContent
    /\ codec.data = codec.content

\* C14: get_update_queue is called only while is_open, and is_open only
\* after protocol_translator_register resolved on a socket on which no
\* close has been observed: a tick before or during the handshake, after a
\* failed init or after a close calls nothing.
C14_PollOnlyWhenOpen ==
    /\ [](is_open =>
             /\ client \in {"connected", "destroyed"}
             /\ initPc = "done"
             /\ \E i \in 1..Len(calls) :
                   calls[i].src = "init" /\ calls[i].st = "resolved")
    /\ [][(Len(calls') > Len(calls) /\ calls'[Len(calls')].src = "poll") =>
              /\ is_open
              /\ client # "closed"
              /\ \E i \in 1..Len(calls) :
                    calls[i].src = "init" /\ calls[i].st = "resolved"]_vars

C14_PolledThenClosed ==
    /\ client = "closed"
    /\ ~is_open
    /\ rpcId < MaxCalls
    /\ \E i \in 1..Len(calls) : calls[i].src = "poll" /\ calls[i].st = "pending"

\* The ids of the calls whose listener is on the socket
Outstanding == {i \in 1..Len(listeners) : listeners[i].kind = "rpc"}

\* C17: the calls of one connection have ids that grow in the order the
\* calls were made, whoever made them (init, the poll, the application), so
\* the ids of the outstanding calls are pairwise distinct.
C17_IdsDistinctAndGrowing ==
    /\ \A i, j \in 1..Len(calls) : i < j => calls[i].id < calls[j].id
    /\ \A i \in 1..Len(calls) : calls[i].id \in 1..rpcId
    /\ \A i, j \in Outstanding : i # j => listeners[i].id # listeners[j].id

C17_PollAndAppOutstanding ==
    \E i, j \in Outstanding :
        /\ i # j
        /\ \E a, b \in 1..Len(calls) :
              /\ calls[a].id = listeners[i].id /\ calls[a].src = "poll"
              /\ calls[b].id = listeners[j].id /\ calls[b].src = "app"
              /\ calls[a].st = "pending" /\ calls[b].st = "pending"
              /\ a < b

C20_OnePostPerExecuted ==
    /\ [](subs <= 1)
    /\ [][(emitted' # emitted /\ emitted'.ev = "resource-executed") =>
              /\ ~emitted'.mine => Len(emitted'.notes) = 0
              /\ (emitted'.mine /\ subs >= 1) => Len(emitted'.notes) = 1]_vars

\* C19: a 'resource-updated' event with another device id or with a path
\* that is no key of this.resources changes nothing in this.resources and
\* emits no put; one with the session's id and a known path changes the
\* value of that path only and emits one put with the path and the new
\* value.  Once register has set the resource model, no event and no
\* setValue changes the keys of this.resources.
C19_UpdatedTouchesOnePath ==
    /\ [][emitted' # emitted =>
              LET e == emitted'
                  path == Path(e.route)
              IN IF e.mine /\ path \in DOMAIN resources
                 THEN /\ Len(e.notes) = 1
                      /\ e.notes[1].type = "put"
                      /\ e.notes[1].path = path
                      /\ resources' = [resources EXCEPT
                                          ![path].value = e.notes[1].value]
                 ELSE /\ e.notes = <<>>
                      /\ resources' = resources]_vars
    /\ [][\/ reg.pc # "open" /\ reg'.pc = "open"
          \/ DOMAIN resources' = DOMAIN resources]_vars

C19_OnePathUpdated ==
    /\ emitted.ev = "resource-updated" /\ emitted.mine
    /\ Len(emitted.notes) = 1
    /\ Path(emitted.route) \in DOMAIN resources
    /\ resources[Path(emitted.route)].value = emitted.notes[1].value
    /\ resources[Path(emitted.route)].rpcType = "Float"
    /\ \E p \in DOMAIN resources :
          p # Path(emitted.route) /\ resources[p].rpcType = "String"

\* C18: a run of the 5/0/0 handler emits fota at most once, and only when
\* the verification and the download have succeeded and its push of state
\* Downloaded has completed; a run whose verification or download failed
\* emits none.
C18_FotaOnceAfterDownloaded ==
    /\ [](\A i \in 1..MaxProcs :
             LET p == procs[i]
             IN /\ p.fota <= 1
                /\ p.fota = 1 =>
                      /\ p.kind = "run" /\ p.pc = "end"
                      /\ {"verify", "download", "set_downloaded"} \subseteq p.tried
                      /\ p.manifest \in Manifests
                /\ ("vf_state" \in p.tried \/ "df_state" \in p.tried) => p.fota = 0)
    /\ [][\A i \in 1..MaxProcs :
             procs'[i].fota > procs[i].fota =>
                 /\ procs[i].pc = "set_downloaded"
                 /\ fwState' = ARM_UC_MONITOR_STATE_DOWNLOADED]_vars

C18_FotaEmitted ==
    \E i \in 1..MaxProcs :
        /\ procs[i].kind = "run" /\ procs[i].pc = "end"
        /\ procs[i].fota = 1
        /\ fwState = ARM_UC_MONITOR_STATE_DOWNLOADED

\* C21: deinit terminates, with success or with an error, also when a call
\* of the poll or of the application is outstanding: as long as deinit waits
\* for the response to STOP, the promise it awaits can still settle, by its
\* listener on the socket or by its 10 s timer.
C21_DeinitCanSettle ==
    (deinitPc = "await_finish" /\ ctl.st = "pending") =>
        \/ ctl.timer
        \/ \E i \in 1..Len(listeners) : listeners[i] = CtlListener

\* C22: the name and the version setFotaComplete pushes are the content hash
\* and the timestamp of the manifest whose firmware the most recent fota
\* event of the registered device carried, whatever manifest-received runs
\* came after that event.
C22_CompleteNamesFotaManifest ==
    \A i \in 1..MaxProcs :
        (reg.pc = "done" /\ procs[i].kind = "complete" /\ fotaManifest # NoManifest) =>
            /\ procs[i].pc = "cmp_name" => procs[i].arg = fotaManifest.hash
            /\ procs[i].pc = "cmp_version" =>
                    procs[i].arg = toString(fotaManifest.timestamp)

====
